---- MODULE Spec2Model ----
(***************************************************************************)
(* Recovery-Guard backend: the case store (cases/models.py), the case      *)
(* endpoints (cases/views.py) and the dashboard aggregator (core/views.py).*)
(* Every request handler is one atomic step: it runs inside                *)
(* transaction.atomic() or performs a single write.                        *)
(***************************************************************************)
EXTENDS Integers, FiniteSets, Sequences, TLC

VARIABLES cases,                 \* table cases_case: pk -> row
          cryptolossreport,      \* table cases_cryptolossreport: case_ptr -> row
          socialmediarecovery,   \* table cases_socialmediarecovery: case_ptr -> row
          moneyrecoveryreport,   \* table cases_moneyrecoveryreport: case_ptr -> row
          supporting_documents,  \* table cases_supportingdocuments: pk -> row
          next_id,               \* next auto-increment pk of cases_case
          next_doc_id,           \* next auto-increment pk of cases_supportingdocuments
          resp,                  \* the last request and its response
          progress_in,           \* status counts handed to _build_progress
          progress_out,          \* what _build_progress returned for them
          activity_in,           \* the rows handed to _build_activity
          activity_out,          \* the feed _build_activity returned for them
          time_in,               \* the elapsed seconds handed to _calculate_time_ago
          time_out,              \* what _calculate_time_ago returned for them
          inflight,              \* put requests between their lookup and their commit
          logging                \* whether resp is kept (a history variable)

store == <<cases, cryptolossreport, socialmediarecovery, moneyrecoveryreport,
           supporting_documents>>
vars == <<cases, cryptolossreport, socialmediarecovery, moneyrecoveryreport,
          supporting_documents, next_id, next_doc_id, resp, progress_in, progress_out,
          activity_in, activity_out, logging,
                   time_in, time_out, inflight>>

----------------------------------------------------------------------------
(* Bounds *)

MaxId == 1          \* pks handed out by cases_case
MaxDocId == 1       \* pks handed out by cases_supportingdocuments
MaxCount == 5       \* largest per-status count given to _build_progress

----------------------------------------------------------------------------
(* Actors: CustomUser rows with their role flags *)

Customers == {"c1", "c2"}     \* is_customer = True
Agents == {"a1", "a2"}        \* is_agent = True
Admins == {"adm"}             \* is_staff = True, is_customer = is_agent = False
Others == {"nob"}             \* authenticated, every role flag False
Users == Customers \cup Agents \cup Admins \cup Others

is_customer(u) == u \in Customers
is_agent(u) == u \in Agents

NoAgent == "null"             \* agent IS NULL
NoDate == "null"              \* resolution_date IS NULL

----------------------------------------------------------------------------
(* Choices of the Case model *)

TYPE_CHOICES == {"general", "crypto", "money_recovery", "social_media"}
STATUS_CHOICES == {"open", "in_progress", "pending", "resolved", "closed"}
PRIORITY_CHOICES == {"low", "normal", "high", "urgent"}
PLATFORM_CHOICES == {"Facebook", "Instagram", "Twitter", "LinkedIn", "Snapchat",
                     "TikTok", "Reddit", "YouTube", "Pinterest", "WhatsApp",
                     "Telegram", "Discord", "Other"}

\* request.data.get(key, default)
Get(d, k, def) == IF k \in DOMAIN d THEN d[k] ELSE def

----------------------------------------------------------------------------
(* Request payloads *)

\* a request: request.data, request.FILES.getlist('supporting_documents') and
\* request.POST.getlist('document_descriptions')
Request(data, files, descriptions) ==
    [data |-> data, files |-> files, descriptions |-> descriptions]

\* an uploaded file whose save raises (storage or database error)
Unwritable == "unwritable"

CryptoRequests ==
    { Request([amount_lost |-> 1, usdt_value |-> 1], <<>>, <<>>),
      Request([amount_lost |-> 1, usdt_value |-> 0, status |-> "pending",
               priority |-> "high"], <<"f1">>, <<>>),
      Request([usdt_value |-> 1], <<"f1">>, <<>>) }

SocialRequests ==
    { Request([platform |-> "Facebook"], <<>>, <<>>),
      Request([platform |-> "Twitter", status |-> "closed", priority |-> "high"],
              <<"f1">>, <<>>),
      Request([platform |-> "MySpace"], <<>>, <<>>) }

MoneyRequests ==
    { Request([amount |-> 1, status |-> "resolved"], <<>>, <<>>),
      Request([amount |-> 0], <<>>, <<>>),
      Request([amount |-> 1, status |-> "bogus"], <<>>, <<>>) }

PutRequests ==
    { Request([status |-> "open"], <<>>, <<>>),
      Request([status |-> "closed", is_closed |-> TRUE], <<>>, <<>>),
      Request([status |-> "bogus"], <<>>, <<>>),
      Request([priority |-> "urgent", usdt_value |-> 2, amount |-> 2,
               platform |-> "Other", type |-> "general", customer |-> "c2",
               agent |-> "a2", is_active |-> FALSE, resolution_date |-> "now",
               created_at |-> "now"], <<"f1">>, <<>>),
      Request([priority |-> "low", usdt_value |-> 0, amount |-> -1,
               platform |-> "MySpace"], <<>>, <<>>),
      Request([is_closed |-> TRUE], <<>>, <<>>),
      Request([platform |-> "Other"], <<Unwritable>>, <<>>) }

\* the users that send create requests
Creators == {"c1", "c2", "a1"}

ListFilters ==
    { [none |-> TRUE],
      [status |-> "open"],
      [type |-> "crypto"],
      [priority |-> "high", status |-> "closed"] }

KindArgs == { "", "crypto" }       \* case_type=None is the empty kind

----------------------------------------------------------------------------
(* Model.full_clean() *)

\* Case fields: choices of status and priority, limit_choices_to of the
\* customer and agent foreign keys
CaseFullClean(c) ==
    /\ c.status \in STATUS_CHOICES
    /\ c.priority \in PRIORITY_CHOICES
    /\ c.type \in TYPE_CHOICES
    /\ is_customer(c.customer)
    /\ (c.agent # NoAgent => is_agent(c.agent))

\* DecimalField(null=False): a value is required, its sign is not checked;
\* null_fields names the fields of the instance that are None
CryptoFullClean(e) == e.null_fields = {}
SocialFullClean(e) == e.platform \in PLATFORM_CHOICES
MoneyFullClean(e) == e.null_fields = {}

----------------------------------------------------------------------------
(* Model.save() of the three subclasses *)

\* a save() that stamps another subclass's kind
SaveType_copy_paste(kind) == "crypto"

\* self.type = '<kind>' at the top of save()
SaveType(kind) == kind

----------------------------------------------------------------------------
(* save_supporting_documents(case, files, descriptions) *)

RECURSIVE SaveDocs(_, _, _, _, _, _)
SaveDocs(docs, nid, pk, files, descriptions, i) ==
    IF i > Len(files) THEN docs
    ELSE IF files[i] = "" THEN SaveDocs(docs, nid, pk, files, descriptions, i + 1)
    ELSE LET description == IF i <= Len(descriptions) THEN descriptions[i] ELSE ""
             row == [case |-> pk, file |-> files[i],
                     description |-> IF description # "" THEN description
                                     ELSE "Supporting document " \o ToString(i)]
         IN SaveDocs((nid :> row) @@ docs, nid + 1, pk, files, descriptions, i + 1)

NonEmpty(files) == Cardinality({i \in 1..Len(files) : files[i] # ""})

\* a helper that replaces the documents the case already had
save_supporting_documents_replacing(docs, nid, pk, files, descriptions) ==
    SaveDocs([k \in {j \in DOMAIN docs : docs[j].case # pk} |-> docs[k]],
             nid, pk, files, descriptions, 1)

save_supporting_documents(docs, nid, pk, files, descriptions) ==
    SaveDocs(docs, nid, pk, files, descriptions, 1)

\* SupportingDocuments.objects.create(...) raises for one of the files
DocsFail(files) == \E i \in DOMAIN files : files[i] = Unwritable

DocsFit(files) == DocsFail(files) \/ next_doc_id + NonEmpty(files) <= MaxDocId + 1

----------------------------------------------------------------------------
(* Responses *)

NoReq == [none |-> TRUE]
NoUser == "-"

Record(op, u, pk, req, code, result) ==
    [op |-> op, user |-> u, pk |-> pk, req |-> req, code |-> code, result |-> result,
     index |-> 0]

\* what resp holds when responses are not kept
Unlogged == Record("-", NoUser, 0, NoReq, 0, {})

Response(op, u, pk, req, code, result) ==
    IF logging THEN Record(op, u, pk, req, code, result) ELSE Unlogged

\* nothing handed to _build_activity, nothing returned
NoRows == [cases |-> <<>>, docs |-> <<>>]
NoFeed == [built |-> FALSE, feed |-> <<>>]

\* nothing returned by _calculate_time_ago yet
NoTime == ""

----------------------------------------------------------------------------
Init ==
    /\ cases = <<>>
    /\ cryptolossreport = <<>>
    /\ socialmediarecovery = <<>>
    /\ moneyrecoveryreport = <<>>
    /\ supporting_documents = <<>>
    /\ next_id = 1
    /\ next_doc_id = 1
    /\ resp = Record("init", NoUser, 0, NoReq, 0, {})
    /\ progress_in = [open |-> 0, in_progress |-> 0, pending |-> 0, resolved |-> 0, closed |-> 0]
    /\ progress_out = [steps |-> <<>>, currentStepIndex |-> 0]
    /\ activity_in = NoRows
    /\ activity_out = NoFeed
    /\ time_in = 0
    /\ time_out = NoTime
    /\ inflight = <<>>
    /\ logging = TRUE

----------------------------------------------------------------------------
(* Row helpers *)

Insert(table, pk, row) == (pk :> row) @@ table
Update(table, pk, row) == [table EXCEPT ![pk] = row]
Remove(table, pk) == [k \in DOMAIN table \ {pk} |-> table[k]]

\* a Case whose resolution_date defaults to the time of creation
NewCase_dated(u, d, kind) ==
    [customer |-> u, agent |-> NoAgent,
     status |-> Get(d, "status", "open"),
     priority |-> Get(d, "priority", "normal"),
     resolution_date |-> "now",
     is_closed |-> FALSE, is_active |-> TRUE, type |-> kind]

\* the Case part of a new subclass instance, as the create views build it;
\* resolution_date is not passed and has no default
NewCase(u, d, kind) ==
    [customer |-> u, agent |-> NoAgent,
     status |-> Get(d, "status", "open"),
     priority |-> Get(d, "priority", "normal"),
     resolution_date |-> NoDate,
     is_closed |-> FALSE, is_active |-> TRUE, type |-> kind]

NullFields(d, required) == required \ DOMAIN d

NewCrypto(d) ==
    [amount_lost |-> Get(d, "amount_lost", 0), usdt_value |-> Get(d, "usdt_value", 0),
     null_fields |-> NullFields(d, {"amount_lost", "usdt_value"})]
NewSocial(d) == [platform |-> Get(d, "platform", "")]
NewMoney(d) ==
    [amount |-> Get(d, "amount", 0), null_fields |-> NullFields(d, {"amount"})]

----------------------------------------------------------------------------
(* CreateCryptoLossAPIView.post *)

CreateCryptoLossPost(u, d, files, descriptions) ==
    LET crypto_report == NewCase(u, d, "crypto")
        ext == NewCrypto(d)
        pk == next_id
    IN  /\ DocsFit(files)
        /\ IF CaseFullClean(crypto_report) /\ CryptoFullClean(ext) /\ ~DocsFail(files)
           THEN /\ next_id <= MaxId
                /\ cases' = Insert(cases, pk, [crypto_report EXCEPT !.type = SaveType("crypto")])
                /\ cryptolossreport' = Insert(cryptolossreport, pk, ext)
                /\ supporting_documents' =
                       save_supporting_documents(supporting_documents, next_doc_id, pk,
                                                 files, descriptions)
                /\ next_id' = next_id + 1
                /\ next_doc_id' = next_doc_id + NonEmpty(files)
                /\ resp' = Response("create_crypto", u, pk, d, 201, {})
           ELSE /\ resp' = Response("create_crypto", u, 0, d, 400, {})
                /\ UNCHANGED <<cases, cryptolossreport, supporting_documents,
                               next_id, next_doc_id>>
        /\ UNCHANGED <<socialmediarecovery, moneyrecoveryreport, progress_in, progress_out,
                   activity_in, activity_out, logging,
                   time_in, time_out, inflight>>

(* CreateSocialMediaRecoveryAPIView.post *)

CreateSocialMediaRecoveryPost(u, d, files, descriptions) ==
    LET social_recovery == NewCase(u, d, "social_media")
        ext == NewSocial(d)
        pk == next_id
    IN  /\ DocsFit(files)
        /\ IF CaseFullClean(social_recovery) /\ SocialFullClean(ext) /\ ~DocsFail(files)
           THEN /\ next_id <= MaxId
                /\ cases' = Insert(cases, pk, [social_recovery EXCEPT !.type = SaveType("social_media")])
                /\ socialmediarecovery' = Insert(socialmediarecovery, pk, ext)
                /\ supporting_documents' =
                       save_supporting_documents(supporting_documents, next_doc_id, pk,
                                                 files, descriptions)
                /\ next_id' = next_id + 1
                /\ next_doc_id' = next_doc_id + NonEmpty(files)
                /\ resp' = Response("create_social", u, pk, d, 201, {})
           ELSE /\ resp' = Response("create_social", u, 0, d, 400, {})
                /\ UNCHANGED <<cases, socialmediarecovery, supporting_documents,
                               next_id, next_doc_id>>
        /\ UNCHANGED <<cryptolossreport, moneyrecoveryreport, progress_in, progress_out,
                   activity_in, activity_out, logging,
                   time_in, time_out, inflight>>

(* CreateMoneyRecoveryAPIView.post *)

CreateMoneyRecoveryPost(u, d, files, descriptions) ==
    LET money_recovery == NewCase(u, d, "money_recovery")
        ext == NewMoney(d)
        pk == next_id
    IN  /\ DocsFit(files)
        /\ IF CaseFullClean(money_recovery) /\ MoneyFullClean(ext) /\ ~DocsFail(files)
           THEN /\ next_id <= MaxId
                /\ cases' = Insert(cases, pk, [money_recovery EXCEPT !.type = SaveType("money_recovery")])
                /\ moneyrecoveryreport' = Insert(moneyrecoveryreport, pk, ext)
                /\ supporting_documents' =
                       save_supporting_documents(supporting_documents, next_doc_id, pk,
                                                 files, descriptions)
                /\ next_id' = next_id + 1
                /\ next_doc_id' = next_doc_id + NonEmpty(files)
                /\ resp' = Response("create_money", u, pk, d, 201, {})
           ELSE /\ resp' = Response("create_money", u, 0, d, 400, {})
                /\ UNCHANGED <<cases, moneyrecoveryreport, supporting_documents,
                               next_id, next_doc_id>>
        /\ UNCHANGED <<cryptolossreport, socialmediarecovery, progress_in, progress_out,
                   activity_in, activity_out, logging,
                   time_in, time_out, inflight>>

----------------------------------------------------------------------------
(* CaseDetailView *)

\* a check that lets every agent in, assigned case or not
_has_permission_any_agent(user, case) ==
    \/ user = case.customer
    \/ (case.agent # NoAgent /\ case.agent = user)
    \/ is_agent(user)

_has_permission(user, case) ==
    \/ user = case.customer
    \/ (case.agent # NoAgent /\ case.agent = user)
    \/ (is_agent(user) /\ case.agent = NoAgent)

base_fields == {"title", "description", "status", "priority", "resolution",
                "resolution_status"}
crypto_fields == {"amount_lost", "usdt_value", "txid", "sender_wallet",
                  "receiver_wallet", "platform_used", "blockchain_hash",
                  "payment_method", "crypto_type", "transaction_datetime",
                  "loss_description", "exchange_info", "wallet_backup"}
social_fields == {"platform", "full_name", "email", "phone", "username",
                  "profile_url", "profile_pic", "account_creation_date",
                  "last_access_date"}
money_fields == {"first_name", "last_name", "phone", "email", "identification",
                 "amount", "ref_number", "bank", "iban", "datetime"}

\* a loop over the keys of the patch, without the allow-list
SetAttrs_any_key(instance, data, fields) ==
    [f \in DOMAIN instance |-> IF f \in DOMAIN data THEN data[f] ELSE instance[f]]

\* for field in fields: if field in data: setattr(instance, field, data[field])
SetAttrs(instance, data, fields) ==
    [f \in DOMAIN instance |->
        IF f \in fields /\ f \in DOMAIN data THEN data[f] ELSE instance[f]]

\* a save() that resets the kind to the default of the type field
ChildSave_default_kind(kind, child_case) == [child_case EXCEPT !.type = "general"]

\* the Case row that <subclass>.save() writes: the subclass instance carries
\* its own copy of the Case columns, read when the instance was loaded
ChildSave(kind, child_case) == [child_case EXCEPT !.type = SaveType(kind)]

\* a block that is not atomic: what was saved before the exception stays
Rollback_autocommit(before, partial) == partial

\* "with transaction.atomic()": an exception inside the block restores the
\* tables to what they were when the block was entered
Rollback(before, partial) == before

\* the body of "with transaction.atomic()" in put, up to the insertion of the
\* documents: ok = FALSE when a full_clean() or the saving of a document
\* raised; saved_case is the store after case.save(), saved_child the store
\* after <subclass>.save(); child and child_case are the two halves of the
\* subclass instance (its own columns and its copy of the Case columns)
PutTransaction(pk, data, files) ==
    LET loaded == cases[pk]
        case == SetAttrs(loaded, data, base_fields)
        before == [ok |-> FALSE, cases |-> cases, crypto |-> cryptolossreport,
                   social |-> socialmediarecovery, money |-> moneyrecoveryreport]
        saved_case == [before EXCEPT !.cases = Update(cases, pk, case)]
    IN  IF ~CaseFullClean(case) THEN Rollback(before, before)
        ELSE IF pk \in DOMAIN cryptolossreport
        THEN LET child == SetAttrs(cryptolossreport[pk], data, crypto_fields)
                 child_case == SetAttrs(loaded, data, crypto_fields)
                 saved_child ==
                    [saved_case EXCEPT
                       !.cases = Update(saved_case.cases, pk, ChildSave("crypto", child_case)),
                       !.crypto = Update(cryptolossreport, pk, child)]
             IN  IF ~(CaseFullClean(child_case) /\ CryptoFullClean(child))
                 THEN Rollback(before, saved_case)
                 ELSE IF DocsFail(files) THEN Rollback(before, saved_child)
                 ELSE [saved_child EXCEPT !.ok = TRUE]
        ELSE IF pk \in DOMAIN socialmediarecovery
        THEN LET child == SetAttrs(socialmediarecovery[pk], data, social_fields)
                 child_case == SetAttrs(loaded, data, social_fields)
                 saved_child ==
                    [saved_case EXCEPT
                       !.cases = Update(saved_case.cases, pk,
                                        ChildSave("social_media", child_case)),
                       !.social = Update(socialmediarecovery, pk, child)]
             IN  IF ~(CaseFullClean(child_case) /\ SocialFullClean(child))
                 THEN Rollback(before, saved_case)
                 ELSE IF DocsFail(files) THEN Rollback(before, saved_child)
                 ELSE [saved_child EXCEPT !.ok = TRUE]
        ELSE IF pk \in DOMAIN moneyrecoveryreport
        THEN LET child == SetAttrs(moneyrecoveryreport[pk], data, money_fields)
                 child_case == SetAttrs(loaded, data, money_fields)
                 saved_child ==
                    [saved_case EXCEPT
                       !.cases = Update(saved_case.cases, pk,
                                        ChildSave("money_recovery", child_case)),
                       !.money = Update(moneyrecoveryreport, pk, child)]
             IN  IF ~(CaseFullClean(child_case) /\ MoneyFullClean(child))
                 THEN Rollback(before, saved_case)
                 ELSE IF DocsFail(files) THEN Rollback(before, saved_child)
                 ELSE [saved_child EXCEPT !.ok = TRUE]
        ELSE IF DocsFail(files) THEN Rollback(before, saved_case)
             ELSE [saved_case EXCEPT !.ok = TRUE]

CaseDetailGet(u, pk) ==
    /\ resp' = IF pk \notin DOMAIN cases THEN Response("get", u, pk, NoReq, 404, {})
               ELSE IF ~_has_permission(u, cases[pk])
                    THEN Response("get", u, pk, NoReq, 403, {})
                    ELSE Response("get", u, pk, NoReq, 200, {pk})
    /\ UNCHANGED <<store, next_id, next_doc_id, progress_in, progress_out,
                   activity_in, activity_out, logging,
                   time_in, time_out, inflight>>

CaseDetailPut(u, pk, data, files, descriptions) ==
    /\ DocsFit(files)
    /\ IF pk \notin DOMAIN cases
       THEN /\ resp' = Response("put", u, pk, data, 404, {})
            /\ UNCHANGED <<store, next_doc_id>>
       ELSE IF ~_has_permission(u, cases[pk])
       THEN /\ resp' = Response("put", u, pk, data, 403, {})
            /\ UNCHANGED <<store, next_doc_id>>
       ELSE LET tx == PutTransaction(pk, data, files)
            IN  /\ cases' = tx.cases
                /\ cryptolossreport' = tx.crypto
                /\ socialmediarecovery' = tx.social
                /\ moneyrecoveryreport' = tx.money
                /\ IF tx.ok
                   THEN /\ supporting_documents' =
                               save_supporting_documents(supporting_documents,
                                                         next_doc_id, pk, files, descriptions)
                        /\ next_doc_id' = next_doc_id + NonEmpty(files)
                        /\ resp' = Response("put", u, pk, data, 200, {pk})
                   ELSE /\ resp' = Response("put", u, pk, data, 400, {})
                        /\ UNCHANGED <<supporting_documents, next_doc_id>>
    /\ UNCHANGED <<next_id, progress_in, progress_out,
                   activity_in, activity_out, logging,
                   time_in, time_out, inflight>>

\* a foreign key that keeps the documents of a deleted case
Cascade_keep_rows(docs, pk) == docs

\* SupportingDocuments.case, on_delete=CASCADE: the rows of case pk go with it
Cascade(docs, pk) ==
    [k \in {j \in DOMAIN docs : docs[j].case # pk} |-> docs[k]]

\* case.delete(): the subclass row (parent link) and the documents
\* (on_delete=CASCADE) go with the Case row
CaseDetailDelete(u, pk) ==
    /\ IF pk \notin DOMAIN cases
       THEN /\ resp' = Response("delete", u, pk, NoReq, 404, {})
            /\ UNCHANGED store
       ELSE IF ~_has_permission(u, cases[pk])
       THEN /\ resp' = Response("delete", u, pk, NoReq, 403, {})
            /\ UNCHANGED store
       ELSE /\ cases' = Remove(cases, pk)
            /\ cryptolossreport' = Remove(cryptolossreport, pk)
            /\ socialmediarecovery' = Remove(socialmediarecovery, pk)
            /\ moneyrecoveryreport' = Remove(moneyrecoveryreport, pk)
            /\ supporting_documents' = Cascade(supporting_documents, pk)
            /\ resp' = Response("delete", u, pk, NoReq, 204, {})
    /\ UNCHANGED <<next_id, next_doc_id, progress_in, progress_out,
                   activity_in, activity_out, logging,
                   time_in, time_out, inflight>>

----------------------------------------------------------------------------
(* Case.close_case and Case.assign_agent *)

\* a close that flips is_closed instead of setting it
close_case_toggle(pk) ==
    /\ pk \in DOMAIN cases
    /\ cases' = Update(cases, pk, [cases[pk] EXCEPT !.is_closed = ~cases[pk].is_closed,
                                                    !.status = "closed"])
    /\ resp' = Response("close", NoUser, pk,
                        [status |-> cases[pk].status, is_closed |-> cases[pk].is_closed],
                        0, {})
    /\ UNCHANGED <<cryptolossreport, socialmediarecovery, moneyrecoveryreport,
                   supporting_documents, next_id, next_doc_id, progress_in, progress_out,
                   activity_in, activity_out, logging,
                   time_in, time_out, inflight>>

\* resp.req of a close is the state the helper found the case in
close_case(pk) ==
    /\ pk \in DOMAIN cases
    /\ cases' = Update(cases, pk, [cases[pk] EXCEPT !.is_closed = TRUE, !.status = "closed"])
    /\ resp' = Response("close", NoUser, pk,
                        [status |-> cases[pk].status, is_closed |-> cases[pk].is_closed],
                        0, {})
    /\ UNCHANGED <<cryptolossreport, socialmediarecovery, moneyrecoveryreport,
                   supporting_documents, next_id, next_doc_id, progress_in, progress_out,
                   activity_in, activity_out, logging,
                   time_in, time_out, inflight>>

assign_agent(pk, agent) ==
    /\ pk \in DOMAIN cases
    /\ cases' = Update(cases, pk, [cases[pk] EXCEPT !.agent = agent, !.status = "in_progress"])
    /\ resp' = Response("assign", NoUser, pk, [agent |-> agent], 0, {})
    /\ UNCHANGED <<cryptolossreport, socialmediarecovery, moneyrecoveryreport,
                   supporting_documents, next_id, next_doc_id, progress_in, progress_out,
                   activity_in, activity_out, logging,
                   time_in, time_out, inflight>>

----------------------------------------------------------------------------
(* CaseListApiView.get *)

\* request.query_params.get(name); an absent or empty value adds no filter
Filtered(ids, f) ==
    {id \in ids :
        /\ ("status" \in DOMAIN f => cases[id].status = f.status)
        /\ ("type" \in DOMAIN f => cases[id].type = f.type)
        /\ ("priority" \in DOMAIN f => cases[id].priority = f.priority)}

CaseListGet(u, f) ==
    /\ resp' = IF is_customer(u)
               THEN Response("list", u, 0, f, 200,
                             Filtered({id \in DOMAIN cases : cases[id].customer = u}, f))
               ELSE IF is_agent(u)
               THEN Response("list", u, 0, f, 200,
                             Filtered({id \in DOMAIN cases :
                                          cases[id].agent = u \/ cases[id].agent = NoAgent}, f))
               ELSE Response("list", u, 0, f, 403, {})
    /\ UNCHANGED <<store, next_id, next_doc_id, progress_in, progress_out,
                   activity_in, activity_out, logging,
                   time_in, time_out, inflight>>

(* CaseStatsAPIView.get *)

\* a statistics view that repairs is_closed on the closed cases it counts
CaseStatsGet_repairing(u) ==
    /\ cases' = [id \in DOMAIN cases |->
                    IF cases[id].status = "closed"
                    THEN [cases[id] EXCEPT !.is_closed = TRUE] ELSE cases[id]]
    /\ resp' = Response("case_stats", u, 0, NoReq, 200,
                        {id \in DOMAIN cases : cases[id].customer = u})
    /\ UNCHANGED <<cryptolossreport, socialmediarecovery, moneyrecoveryreport,
                   supporting_documents, next_id, next_doc_id, progress_in, progress_out,
                   activity_in, activity_out, logging,
                   time_in, time_out, inflight>>

CaseStatsGet(u) ==
    /\ resp' = IF is_customer(u)
               THEN Response("case_stats", u, 0, NoReq, 200,
                             {id \in DOMAIN cases : cases[id].customer = u})
               ELSE IF is_agent(u)
               THEN Response("case_stats", u, 0, NoReq, 200,
                             {id \in DOMAIN cases : cases[id].agent = u})
               ELSE Response("case_stats", u, 0, NoReq, 403, {})
    /\ UNCHANGED <<store, next_id, next_doc_id, progress_in, progress_out,
                   activity_in, activity_out, logging,
                   time_in, time_out, inflight>>

----------------------------------------------------------------------------
(* core/views.py: DashboardView, CaseTypeStatsView, CaseAnalyticsView *)

\* the role branch shared by the three views
user_cases(u) ==
    IF is_customer(u)
    THEN {id \in DOMAIN cases : cases[id].customer = u /\ cases[id].is_active}
    ELSE IF is_agent(u)
    THEN {id \in DOMAIN cases : cases[id].agent = u /\ cases[id].is_active}
    ELSE {id \in DOMAIN cases : cases[id].is_active}

\* user_cases.filter(status=...).count() for each status
StatusCounts(ids) ==
    [st \in STATUS_CHOICES |-> Cardinality({id \in ids : cases[id].status = st})]

progress_steps == <<"Case Created", "Under Review", "Investigation",
                    "Resolution Phase", "Completed">>
no_cases_steps == <<"No Cases", "Create Case", "Submit Details", "Await Assignment",
                    "In Progress">>

\* _build_progress with the 60% step counting pending cases only
_build_progress_pending_only(n) ==
    LET total_cases == n.open + n.in_progress + n.pending + n.resolved + n.closed
        resolved_count == n.resolved + n.closed
    IN  IF total_cases > 0
        THEN [steps |-> progress_steps,
              currentStepIndex |->
                 IF 5 * resolved_count >= 4 * total_cases THEN 4
                 ELSE IF 5 * n.pending >= 3 * total_cases THEN 3
                 ELSE IF 5 * n.in_progress >= 2 * total_cases THEN 2
                 ELSE IF 5 * n.open < 4 * total_cases THEN 1
                 ELSE 0]
        ELSE [steps |-> no_cases_steps, currentStepIndex |-> 0]

\* DashboardView._build_progress over a queryset with n[st] cases of status st.
\* x / total >= 0.8 is 5x >= 4 total for the integers a queryset can count
\* (the double nearest a quotient of small integers is on the same side of the
\* double 0.8 as the quotient is of 4/5); likewise 0.6, 0.4 and total * 0.8.
_build_progress(n) ==
    LET total_cases == n.open + n.in_progress + n.pending + n.resolved + n.closed
        open_count == n.open
        in_progress_count == n.in_progress
        pending_count == n.pending
        resolved_count == n.resolved + n.closed
    IN  IF total_cases > 0
        THEN [steps |-> progress_steps,
              currentStepIndex |->
                 IF 5 * resolved_count >= 4 * total_cases THEN 4
                 ELSE IF 5 * (resolved_count + pending_count) >= 3 * total_cases THEN 3
                 ELSE IF 5 * in_progress_count >= 2 * total_cases THEN 2
                 ELSE IF 5 * open_count < 4 * total_cases THEN 1
                 ELSE 0]
        ELSE [steps |-> no_cases_steps, currentStepIndex |-> 0]

DashboardPost(u) ==
    /\ resp' = IF logging
               THEN [Response("dashboard", u, 0, NoReq, 200, user_cases(u)) EXCEPT
                       !.index = _build_progress(StatusCounts(user_cases(u))).currentStepIndex]
               ELSE Unlogged
    /\ UNCHANGED <<store, next_id, next_doc_id, progress_in, progress_out,
                   activity_in, activity_out, logging,
                   time_in, time_out, inflight>>

CaseTypeStatsGet(u, case_type) ==
    /\ resp' = Response("kind_stats", u, 0, [case_type |-> case_type], 200,
                        IF case_type # ""
                        THEN {id \in user_cases(u) : cases[id].type = case_type}
                        ELSE user_cases(u))
    /\ UNCHANGED <<store, next_id, next_doc_id, progress_in, progress_out,
                   activity_in, activity_out, logging,
                   time_in, time_out, inflight>>

CaseAnalyticsGet(u) ==
    /\ resp' = Response("analytics", u, 0, NoReq, 200, user_cases(u))
    /\ UNCHANGED <<store, next_id, next_doc_id, progress_in, progress_out,
                   activity_in, activity_out, logging,
                   time_in, time_out, inflight>>

----------------------------------------------------------------------------
(* The request stream *)

Ids == 1..MaxId

Next ==
    \/ \E u \in Creators, r \in CryptoRequests :
          CreateCryptoLossPost(u, r.data, r.files, r.descriptions)
    \/ \E u \in Creators, r \in SocialRequests :
          CreateSocialMediaRecoveryPost(u, r.data, r.files, r.descriptions)
    \/ \E u \in Creators, r \in MoneyRequests :
          CreateMoneyRecoveryPost(u, r.data, r.files, r.descriptions)
    \/ \E u \in Users, pk \in Ids : CaseDetailGet(u, pk)
    \/ \E u \in Users, pk \in Ids, r \in PutRequests :
          CaseDetailPut(u, pk, r.data, r.files, r.descriptions)
    \/ \E u \in Users, pk \in Ids : CaseDetailDelete(u, pk)
    \/ \E pk \in Ids : close_case(pk)
    \/ \E pk \in Ids, agent \in Agents : assign_agent(pk, agent)
    \/ \E u \in Users, f \in ListFilters : CaseListGet(u, f)
    \/ \E u \in Users : CaseStatsGet(u)
    \/ \E u \in Users : DashboardPost(u)
    \/ \E u \in Users, k \in KindArgs : CaseTypeStatsGet(u, k)
    \/ \E u \in Users : CaseAnalyticsGet(u)

Spec == Init /\ [][Next]_vars

\* the same request stream over the tables alone: responses are not kept
InitStore ==
    /\ cases = <<>>
    /\ cryptolossreport = <<>>
    /\ socialmediarecovery = <<>>
    /\ moneyrecoveryreport = <<>>
    /\ supporting_documents = <<>>
    /\ next_id = 1
    /\ next_doc_id = 1
    /\ resp = Unlogged
    /\ progress_in = [open |-> 0, in_progress |-> 0, pending |-> 0, resolved |-> 0, closed |-> 0]
    /\ progress_out = [steps |-> <<>>, currentStepIndex |-> 0]
    /\ activity_in = NoRows
    /\ activity_out = NoFeed
    /\ time_in = 0
    /\ time_out = NoTime
    /\ inflight = <<>>
    /\ logging = FALSE

SpecStore == InitStore /\ [][Next]_vars

----------------------------------------------------------------------------
(* _build_progress on its own: every combination of status counts *)

Counts == 0..MaxCount

InitProgress ==
    /\ cases = <<>>
    /\ cryptolossreport = <<>>
    /\ socialmediarecovery = <<>>
    /\ moneyrecoveryreport = <<>>
    /\ supporting_documents = <<>>
    /\ next_id = 1
    /\ next_doc_id = 1
    /\ resp = Unlogged
    /\ logging = FALSE
    /\ progress_in \in [open : Counts, in_progress : Counts, pending : Counts,
                        resolved : Counts, closed : Counts]
    /\ progress_out = [steps |-> <<>>, currentStepIndex |-> 0]
    /\ activity_in = NoRows
    /\ activity_out = NoFeed
    /\ time_in = 0
    /\ time_out = NoTime
    /\ inflight = <<>>

BuildProgress ==
    /\ progress_out' = _build_progress(progress_in)
    /\ UNCHANGED <<store, next_id, next_doc_id, resp, progress_in, activity_in,
                   activity_out, logging,
                   time_in, time_out, inflight>>

NextProgress == BuildProgress

SpecProgress == InitProgress /\ [][NextProgress]_vars

----------------------------------------------------------------------------
(* DashboardView._build_activity on its own: every small set of case rows  *)
(* and document rows with their timestamps                                 *)

RecentCases == 15      \* user_cases.order_by('-updated_at')[:15]
RecentDocs == 5        \* ...order_by('-uploaded_at')[:5]
FeedLength == 10       \* activity[:10]

\* queryset[:n]
Take(s, n) == SubSeq(s, 1, IF Len(s) < n THEN Len(s) ELSE n)

\* the orders in which order_by('-<stamp>') may return the rows of a table:
\* descending by stamp, rows of equal stamp in any order
OrderByDesc(table, stamp) ==
    {s \in [1..Cardinality(DOMAIN table) -> DOMAIN table] :
        /\ \A i, j \in DOMAIN s : i # j => s[i] # s[j]
        /\ \A i, j \in DOMAIN s : i < j => table[s[i]][stamp] >= table[s[j]][stamp]}

\* SupportingDocuments.objects.filter(case__in=user_cases)
DocsIn(user_rows, docs) ==
    [k \in {j \in DOMAIN docs : docs[j].case \in DOMAIN user_rows} |-> docs[k]]

\* the feed for one order of the cases and one order of the documents: the
\* case entries, then the document entries, cut to the feed length
_build_activity(user_rows, docs, case_order, doc_order) ==
    LET recent_cases == Take(case_order, RecentCases)
        recent_docs == Take(doc_order, RecentDocs)
        case_entries == [i \in 1..Len(recent_cases) |->
                            [source |-> "case", id |-> recent_cases[i],
                             case_id |-> recent_cases[i],
                             stamp |-> user_rows[recent_cases[i]].updated_at]]
        doc_entries == [i \in 1..Len(recent_docs) |->
                            [source |-> "document", id |-> recent_docs[i],
                             case_id |-> docs[recent_docs[i]].case,
                             stamp |-> docs[recent_docs[i]].uploaded_at]]
    IN  Take(case_entries \o doc_entries, FeedLength)

MaxFeedCases == 2      \* case rows handed to _build_activity
MaxFeedDocs == 1       \* document rows in the table
MaxTime == 3           \* timestamps 1..MaxTime

Times == 1..MaxTime

\* the tables with keys among ids and rows among rows
Tables(ids, rows) == UNION {[sub -> rows] : sub \in SUBSET ids}

InitActivity ==
    /\ cases = <<>>
    /\ cryptolossreport = <<>>
    /\ socialmediarecovery = <<>>
    /\ moneyrecoveryreport = <<>>
    /\ supporting_documents = <<>>
    /\ next_id = 1
    /\ next_doc_id = 1
    /\ resp = Unlogged
    /\ logging = FALSE
    /\ progress_in = [open |-> 0, in_progress |-> 0, pending |-> 0, resolved |-> 0, closed |-> 0]
    /\ progress_out = [steps |-> <<>>, currentStepIndex |-> 0]
    /\ activity_in \in [cases : Tables(1..MaxFeedCases, [updated_at : Times]),
                        docs : Tables(1..MaxFeedDocs,
                                      [case : 1..(MaxFeedCases + 1), uploaded_at : Times])]
    /\ activity_out = NoFeed
    /\ time_in = 0
    /\ time_out = NoTime
    /\ inflight = <<>>

BuildActivity ==
    /\ ~activity_out.built
    /\ \E case_order \in OrderByDesc(activity_in.cases, "updated_at"),
          doc_order \in OrderByDesc(DocsIn(activity_in.cases, activity_in.docs), "uploaded_at") :
          activity_out' =
             [built |-> TRUE,
              feed |-> _build_activity(activity_in.cases, activity_in.docs,
                                       case_order, doc_order)]
    /\ UNCHANGED <<store, next_id, next_doc_id, resp, progress_in, progress_out,
                   activity_in, logging,
                   time_in, time_out, inflight>>

NextActivity == BuildActivity

SpecActivity == InitActivity /\ [][NextActivity]_vars

----------------------------------------------------------------------------
(* Properties *)

Extensions(id) ==
    {k \in {"crypto", "social_media", "money_recovery"} :
        \/ (k = "crypto" /\ id \in DOMAIN cryptolossreport)
        \/ (k = "social_media" /\ id \in DOMAIN socialmediarecovery)
        \/ (k = "money_recovery" /\ id \in DOMAIN moneyrecoveryreport)}

DocsOf(id) == {k \in DOMAIN supporting_documents : supporting_documents[k].case = id}

\* C1: every case with is_closed = true has status = closed.
C1_ClosedImpliesStatusClosed ==
    \A id \in DOMAIN cases : cases[id].is_closed => cases[id].status = "closed"

\* C2: once a case's status is closed, no later operation on it gives it a
\* status other than closed.
C2_NoTransitionOutOfClosed ==
    [][\A id \in DOMAIN cases :
          (cases[id].status = "closed" /\ id \in DOMAIN cases')
             => cases'[id].status = "closed"]_vars

\* C3: the kind of every case names exactly the one extension row that exists
\* for it; no case has zero or two extension rows.
C3_KindExtensionConsistency ==
    \A id \in DOMAIN cases : Extensions(id) = {cases[id].type}

\* a social-media case whose platform an update has changed (no create request
\* asks for "Other"), still with its one extension row
C3_Witness ==
    \E id \in DOMAIN cases :
        /\ cases[id].type = "social_media"
        /\ Extensions(id) = {"social_media"}
        /\ socialmediarecovery[id].platform = "Other"

NonPositiveCrypto(d) ==
    \/ ("usdt_value" \in DOMAIN d /\ d.usdt_value <= 0)
    \/ ("amount_lost" \in DOMAIN d /\ d.amount_lost <= 0)

\* C4: a crypto create whose usdt_value or amount_lost is zero or negative
\* fails with a validation error and leaves no Case, CryptoLossReport or
\* SupportingDocuments row of that request.
C4_NonPositiveCryptoRejected ==
    (resp.op = "create_crypto" /\ NonPositiveCrypto(resp.req))
       => /\ resp.code = 400
          /\ resp.pk \notin DOMAIN cases
          /\ resp.pk \notin DOMAIN cryptolossreport
          /\ DocsOf(resp.pk) = {}

\* the rule of the access evaluator for read and update
CanAccess(u, c) ==
    \/ u = c.customer
    \/ u = c.agent
    \/ (u \in Agents /\ c.agent = NoAgent)

\* C5: get-case and update-case on an existing case are allowed exactly when
\* the actor is its customer, its assigned agent, or an agent while the case
\* has no agent; a denied request leaves the store unchanged.
C5_ReadUpdateAccess ==
    [][(resp'.op \in {"get", "put"} /\ resp'.pk \in DOMAIN cases)
          => /\ (resp'.code # 403) <=> CanAccess(resp'.user, cases[resp'.pk])
             /\ (resp'.code = 403 => store' = store)]_vars

\* an agent was refused the update of a case assigned to another agent
C5_Witness ==
    /\ resp.op = "put"
    /\ resp.code = 403
    /\ resp.pk \in DOMAIN cases
    /\ resp.user \in Agents
    /\ cases[resp.pk].agent \in Agents \ {resp.user}

\* C6: delete-case by an actor who is neither the case's customer nor its
\* assigned agent is denied and the case still exists.
C6_DeleteOnlyOwnerOrAssigned ==
    [][(/\ resp'.op = "delete"
        /\ resp'.pk \in DOMAIN cases
        /\ resp'.user # cases[resp'.pk].customer
        /\ resp'.user # cases[resp'.pk].agent)
          => (resp'.code = 403 /\ resp'.pk \in DOMAIN cases')]_vars

\* the role scope of listing, as specified
ListScope(u) ==
    IF u \in Customers THEN {id \in DOMAIN cases : cases[id].customer = u}
    ELSE IF u \in Agents
    THEN {id \in DOMAIN cases : cases[id].agent = u \/ cases[id].agent = NoAgent}
    ELSE DOMAIN cases

Matches(id, f) ==
    \A k \in DOMAIN f \cap {"status", "type", "priority"} : cases[id][k] = f[k]

\* C7: list-cases returns exactly the cases of the actor's role scope (own
\* cases for a customer, assigned plus unassigned for an agent, all cases for
\* an administrator) that equal every supplied filter.
C7_ListScopeAndFilters ==
    (resp.op = "list" /\ resp.user \in Customers \cup Agents \cup Admins)
       => /\ resp.code = 200
          /\ resp.result = {id \in ListScope(resp.user) : Matches(id, resp.req)}

Unfiltered(r) ==
    \/ r.op \in {"dashboard", "analytics", "case_stats"}
    \/ (r.op = "kind_stats" /\ r.req.case_type = "")

\* C8: dashboard, kind-stats, analytics and case-stats aggregate over the set
\* that list-cases returns to the same actor with no filters.
C8_ReportsUseListScope ==
    (Unfiltered(resp) /\ resp.user \in Customers \cup Agents)
       => resp.result = ListScope(resp.user)

\* C9: an actor with none of the three roles gets a failure from dashboard,
\* kind-stats and analytics, and no aggregate over any case.
C9_UnrecognizedRoleFails ==
    (resp.op \in {"dashboard", "kind_stats", "analytics"} /\ resp.user \in Others)
       => (resp.code # 200 /\ resp.result = {})

\* an update that reached the handler's transaction: the case exists and the
\* actor may update it
Admitted(r) == r.op = "put" /\ r.code \notin {403, 404}

SetsClosed(d) == "is_closed" \in DOMAIN d /\ d.is_closed = TRUE
SetsStatusClosed(d) == "status" \in DOMAIN d /\ d.status = "closed"

\* C12: an update whose patch sets is_closed = true without status = closed
\* fails with a validation error and leaves the case and its extension as
\* they were.
C12_ClosingNeedsStatusClosed ==
    [][(Admitted(resp') /\ SetsClosed(resp'.req) /\ ~SetsStatusClosed(resp'.req))
          => (resp'.code = 400 /\ store' = store)]_vars

\* C13: an update by a permitted actor whose patch sets is_closed = true and
\* status = closed succeeds and leaves the stored case with is_closed = true
\* and status = closed.
C13_ClosingUpdateCloses ==
    (Admitted(resp) /\ SetsClosed(resp.req) /\ SetsStatusClosed(resp.req))
       => /\ resp.code = 200
          /\ cases[resp.pk].is_closed
          /\ cases[resp.pk].status = "closed"

C15_NoOrphans ==
    /\ \A k \in DOMAIN supporting_documents : supporting_documents[k].case \in DOMAIN cases
    /\ DOMAIN cryptolossreport \subseteq DOMAIN cases
    /\ DOMAIN socialmediarecovery \subseteq DOMAIN cases
    /\ DOMAIN moneyrecoveryreport \subseteq DOMAIN cases

\* a case that had a document has been deleted: keys were handed out and no
\* row is left
C15_Witness ==
    /\ next_id > 1
    /\ next_doc_id > 1
    /\ DOMAIN cases = {}
    /\ DOMAIN supporting_documents = {}

\* C16: an update that fails (validation of the base fields, validation of
\* the extension fields, or the saving of an attached document) leaves the
\* base row, the extension row and the documents exactly as they were.
C16_UpdateAllOrNothing ==
    [][(resp'.op = "put" /\ resp'.code = 400) => store' = store]_vars

\* an update of a social-media case whose base half was valid and whose
\* extension half was not
C16_Witness ==
    /\ resp.op = "put"
    /\ resp.code = 400
    /\ resp.pk \in DOMAIN socialmediarecovery
    /\ "priority" \in DOMAIN resp.req
    /\ resp.req.priority \in PRIORITY_CHOICES
    /\ "platform" \in DOMAIN resp.req
    /\ resp.req.platform \notin PLATFORM_CHOICES

\* the fields of row that the patch names within an allow-list have the
\* patch's values
Applied(row, patch, allowed) ==
    \A f \in DOMAIN patch \cap allowed \cap DOMAIN row : row[f] = patch[f]

\* C17: after a successful update of a case of any kind, every allow-listed
\* base field of the patch has the patch's value in the stored case, and every
\* allow-listed kind-specific field has it in the stored extension.
C17_PatchIsApplied ==
    (resp.op = "put" /\ resp.code = 200)
       => /\ Applied(cases[resp.pk], resp.req, base_fields)
          /\ resp.pk \in DOMAIN cryptolossreport
                => Applied(cryptolossreport[resp.pk], resp.req, crypto_fields)
          /\ resp.pk \in DOMAIN socialmediarecovery
                => Applied(socialmediarecovery[resp.pk], resp.req, social_fields)
          /\ resp.pk \in DOMAIN moneyrecoveryreport
                => Applied(moneyrecoveryreport[resp.pk], resp.req, money_fields)

\* the pipeline of the status field
Pipeline == {<<"open", "in_progress">>, <<"in_progress", "pending">>,
             <<"pending", "resolved">>, <<"resolved", "closed">>}

\* C18: every change of a case's status is a step of the pipeline open ->
\* in_progress -> pending -> resolved -> closed, a move to in_progress by
\* assign from a status other than closed, or a move to closed by close.
C18_StatusStateMachine ==
    [][\A id \in DOMAIN cases \cap DOMAIN cases' :
          LET from == cases[id].status
              to == cases'[id].status
          IN  from # to =>
                 \/ <<from, to>> \in Pipeline
                 \/ (resp'.op = "assign" /\ from # "closed" /\ to = "in_progress")
                 \/ (resp'.op = "close" /\ to = "closed")]_vars

Settled == {"resolved", "closed"}

\* C19: the resolution_date of a case changes only from null, and only in a
\* step that takes the case's status into resolved or closed (its creation
\* included); it is null in every state before such a step.
C19_ResolutionDateOnce ==
    [][\A id \in DOMAIN cases' :
          LET old == IF id \in DOMAIN cases THEN cases[id].resolution_date ELSE NoDate
          IN  cases'[id].resolution_date # old =>
                 /\ old = NoDate
                 /\ cases'[id].status \in Settled
                 /\ (id \in DOMAIN cases => cases[id].status # cases'[id].status)]_vars

\* a crypto case that went into closed (no crypto create asks for a settled
\* status, so a close brought it there)
C19_Witness ==
    \E id \in DOMAIN cryptolossreport :
        /\ cases[id].status = "closed"
        /\ cases[id].is_closed
        /\ cases[id].resolution_date = NoDate

\* C20: get-case, update-case and delete-case answer an actor who may not
\* access an existing case exactly as they answer an id of no case (404, no
\* content), so the answer does not tell whether the case exists.
C20_DeniedLooksLikeMissing ==
    (/\ resp.op \in {"get", "put", "delete"}
     /\ resp.pk \in DOMAIN cases
     /\ ~CanAccess(resp.user, cases[resp.pk]))
       => (resp.code = 404 /\ resp.result = {})

\* C21: a case's kind is fixed at creation: it is created with the kind of
\* the extension row made with it, and no update (whatever its patch carries),
\* assign or close changes it.
C21_KindIsFixed ==
    [][\A id \in DOMAIN cases' :
          IF id \in DOMAIN cases
          THEN cases'[id].type = cases[id].type
          ELSE \/ (cases'[id].type = "crypto" /\ id \in DOMAIN cryptolossreport')
               \/ (cases'[id].type = "social_media" /\ id \in DOMAIN socialmediarecovery')
               \/ (cases'[id].type = "money_recovery"
                      /\ id \in DOMAIN moneyrecoveryreport')]_vars

\* a social-media case that an update carrying type = general has gone
\* through (only that patch sets platform = Other), and that was assigned and
\* closed as well
C21_Witness ==
    \E id \in DOMAIN socialmediarecovery :
        /\ socialmediarecovery[id].platform = "Other"
        /\ cases[id].agent # NoAgent
        /\ cases[id].is_closed
        /\ cases[id].type = "social_media"

\* C22: every stored CryptoLossReport has amount_lost > 0 and usdt_value > 0
\* and every stored MoneyRecoveryReport has amount > 0.
C22_AmountsPositive ==
    /\ \A id \in DOMAIN cryptolossreport :
          cryptolossreport[id].amount_lost > 0 /\ cryptolossreport[id].usdt_value > 0
    /\ \A id \in DOMAIN moneyrecoveryreport : moneyrecoveryreport[id].amount > 0

Reports == {"dashboard", "kind_stats", "analytics", "case_stats", "list"}

\* C24: get-dashboard, get-kind-stats, get-analytics, case-stats and
\* list-cases leave every case, extension and document row as it was.
C24_ReportsDoNotWrite ==
    [][resp'.op \in Reports => store' = store]_vars

\* a dashboard computed over a scope that holds a case
C24_Witness ==
    /\ resp.op = "dashboard"
    /\ resp.code = 200
    /\ resp.result # {}

\* the Case fields outside put's allow-lists
Protected == {"customer", "agent", "type", "is_closed", "is_active", "resolution_date"}

\* C25: a successful update leaves customer, agent, type, is_closed,
\* is_active and resolution_date of the stored case as they were, whatever the
\* patch carries under those keys.
C25_UnlistedKeysIgnored ==
    [][(resp'.op = "put" /\ resp'.code = 200)
          => \A f \in Protected : cases'[resp'.pk][f] = cases[resp'.pk][f]]_vars

\* a successful update whose patch named another customer and is_active = false
C25_Witness ==
    /\ resp.op = "put"
    /\ resp.code = 200
    /\ "customer" \in DOMAIN resp.req
    /\ resp.req.customer # cases[resp.pk].customer
    /\ "is_active" \in DOMAIN resp.req
    /\ resp.req.is_active # cases[resp.pk].is_active

\* the actors that may reassign a case
Reassigners == Agents \cup Admins

\* C26: assign on a non-closed case sets the agent and status = in_progress,
\* changes no other field, and goes through only when the case has no agent
\* or an authorized actor makes the reassignment.
C26_AssignAsSpecified ==
    [][(resp'.op = "assign" /\ cases[resp'.pk].status # "closed")
          => /\ cases'[resp'.pk] = [cases[resp'.pk] EXCEPT !.agent = resp'.req.agent,
                                                           !.status = "in_progress"]
             /\ (cases[resp'.pk].agent = NoAgent \/ resp'.user \in Reassigners)]_vars

----------------------------------------------------------------------------
(* Properties of _build_progress, under SpecProgress *)

Total(n) == n.open + n.in_progress + n.pending + n.resolved + n.closed
Built == progress_out.steps # <<>>

\* C10 as stated: the first match of (resolved + closed) >= 80% -> 4,
\* (resolved + pending) >= 60% -> 3, in_progress >= 40% -> 2, open < 80% -> 1,
\* otherwise 0; with no cases index 0 and the no-cases labels.
C10_ProgressAsStated ==
    Built =>
       LET n == progress_in
           t == Total(n)
           i == progress_out.currentStepIndex
       IN  IF t = 0 THEN i = 0 /\ progress_out.steps = no_cases_steps
           ELSE i = IF 5 * (n.resolved + n.closed) >= 4 * t THEN 4
                    ELSE IF 5 * (n.resolved + n.pending) >= 3 * t THEN 3
                    ELSE IF 5 * n.in_progress >= 2 * t THEN 2
                    ELSE IF 5 * n.open < 4 * t THEN 1
                    ELSE 0

\* C10 amended: the 60% step counts resolved, closed and pending cases.
C10_ProgressAmended ==
    Built =>
       LET n == progress_in
           t == Total(n)
           i == progress_out.currentStepIndex
           done == 5 * (n.resolved + n.closed) >= 4 * t
           late == 5 * (n.resolved + n.closed + n.pending) >= 3 * t
           busy == 5 * n.in_progress >= 2 * t
           moved == 5 * n.open < 4 * t
       IN  IF t = 0 THEN i = 0 /\ progress_out.steps = no_cases_steps
           ELSE /\ progress_out.steps = progress_steps
                /\ i \in 0..4
                /\ (i = 4) <=> done
                /\ (i = 3) <=> (~done /\ late)
                /\ (i = 2) <=> (~done /\ ~late /\ busy)
                /\ (i = 1) <=> (~done /\ ~late /\ ~busy /\ moved)

\* closed cases alone carry a scope past 60% and short of 80%
C10_Witness ==
    /\ Built
    /\ progress_out.currentStepIndex = 3
    /\ progress_in.closed > 0
    /\ 5 * (progress_in.resolved + progress_in.pending) < 3 * Total(progress_in)

----------------------------------------------------------------------------
(* Properties of _build_activity, under SpecActivity *)

\* C11: the feed is in descending timestamp order (case updated_at, document
\* uploaded_at): of any two entries the earlier one has a timestamp no older
\* than the later one, so a newer document precedes an older case.
C11_FeedNewestFirst ==
    activity_out.built =>
       \A i, j \in DOMAIN activity_out.feed :
          i < j => activity_out.feed[i].stamp >= activity_out.feed[j].stamp

----------------------------------------------------------------------------
(* SupportingDocumentsAPIView: documents of an existing case *)

MaxAttached == 3    \* pks handed out by cases_supportingdocuments under SpecDocs

DocUsers == {"c1", "c2", "a1", "a2"}
DocCases == 1..3
DocRequests ==
    {[files |-> <<>>, descriptions |-> <<>>],
     [files |-> <<"f1">>, descriptions |-> <<"d1">>],
     [files |-> <<"f1">>, descriptions |-> <<"">>],
     [files |-> <<"f1", "f2">>, descriptions |-> <<"d1">>],
     [files |-> <<"", "f2">>, descriptions |-> <<>>],
     [files |-> <<"f1", Unwritable>>, descriptions |-> <<>>],
     [files |-> <<Unwritable, "f2">>, descriptions |-> <<>>]}

\* the files whose row is created before objects.create raises; every
\* create commits on its own, the view opens no transaction
Written(files) ==
    IF DocsFail(files)
    THEN LET stop == CHOOSE i \in DOMAIN files :
                         /\ files[i] = Unwritable
                         /\ \A j \in 1..(i - 1) : files[j] # Unwritable
         IN SubSeq(files, 1, stop - 1)
    ELSE files

SupportingDocumentsPost(u, case_pk, files, descriptions) ==
    /\ next_doc_id + NonEmpty(files) <= MaxAttached + 1
    /\ LET req == [files |-> files, descriptions |-> descriptions]
       IN IF case_pk \notin DOMAIN cases
          THEN /\ resp' = Response("attach", u, case_pk, req, 404, {})
               /\ UNCHANGED <<supporting_documents, next_doc_id>>
          ELSE IF ~_has_permission(u, cases[case_pk])
          THEN /\ resp' = Response("attach", u, case_pk, req, 403, {})
               /\ UNCHANGED <<supporting_documents, next_doc_id>>
          ELSE IF files = <<>>
          THEN /\ resp' = Response("attach", u, case_pk, req, 400, {})
               /\ UNCHANGED <<supporting_documents, next_doc_id>>
          ELSE LET documents == save_supporting_documents(supporting_documents,
                                    next_doc_id, case_pk, Written(files), descriptions)
               IN /\ supporting_documents' = documents
                  /\ next_doc_id' = next_doc_id + NonEmpty(Written(files))
                  /\ resp' = Response("attach", u, case_pk, req,
                                      IF DocsFail(files) THEN 400 ELSE 201,
                                      IF DocsFail(files) THEN {}
                                      ELSE DOMAIN documents \ DOMAIN supporting_documents)
    /\ UNCHANGED <<cases, cryptolossreport, socialmediarecovery, moneyrecoveryreport,
                   next_id, progress_in, progress_out, activity_in, activity_out,
                   logging, time_in, time_out, inflight>>

SupportingDocumentsDelete(u, case_pk, document_pk) ==
    /\ IF \/ case_pk \notin DOMAIN cases
          \/ document_pk \notin DOMAIN supporting_documents
          \/ supporting_documents[document_pk].case # case_pk
       THEN /\ resp' = Response("detach", u, case_pk, NoReq, 404, {})
            /\ UNCHANGED supporting_documents
       ELSE IF ~(\/ u = cases[case_pk].customer
                 \/ (cases[case_pk].agent # NoAgent /\ cases[case_pk].agent = u))
       THEN /\ resp' = Response("detach", u, case_pk, NoReq, 403, {})
            /\ UNCHANGED supporting_documents
       ELSE /\ supporting_documents' = Remove(supporting_documents, document_pk)
            /\ resp' = Response("detach", u, case_pk, NoReq, 204, {document_pk})
    /\ UNCHANGED <<cases, cryptolossreport, socialmediarecovery, moneyrecoveryreport,
                   next_id, next_doc_id, progress_in, progress_out, activity_in,
                   activity_out, logging, time_in, time_out, inflight>>

\* two cases already filed: a crypto case of c1, unassigned or assigned to
\* a1, and a money recovery case of c2
InitDocs ==
    /\ \E agent \in {NoAgent, "a1"} :
           cases = (1 :> [NewCase("c1", <<>>, "crypto") EXCEPT
                              !.agent = agent,
                              !.status = IF agent = NoAgent THEN "open"
                                         ELSE "in_progress"])
                   @@ (2 :> NewCase("c2", <<>>, "money_recovery"))
    /\ cryptolossreport = (1 :> [amount_lost |-> 1, usdt_value |-> 1, null_fields |-> {}])
    /\ socialmediarecovery = <<>>
    /\ moneyrecoveryreport = (2 :> [amount |-> 1, null_fields |-> {}])
    /\ supporting_documents = <<>>
    /\ next_id = 3
    /\ next_doc_id = 1
    /\ resp = Record("init", NoUser, 0, NoReq, 0, {})
    /\ progress_in = [open |-> 0, in_progress |-> 0, pending |-> 0, resolved |-> 0, closed |-> 0]
    /\ progress_out = [steps |-> <<>>, currentStepIndex |-> 0]
    /\ activity_in = NoRows
    /\ activity_out = NoFeed
    /\ time_in = 0
    /\ time_out = NoTime
    /\ inflight = <<>>
    /\ logging = TRUE

NextDocs ==
    \/ \E u \in DocUsers, pk \in DocCases, r \in DocRequests :
           SupportingDocumentsPost(u, pk, r.files, r.descriptions)
    \/ \E u \in DocUsers, pk \in DocCases, d \in 1..MaxAttached :
           SupportingDocumentsDelete(u, pk, d)

SpecDocs == InitDocs /\ [][NextDocs]_vars

----------------------------------------------------------------------------
(* Properties of SupportingDocumentsAPIView, under SpecDocs *)

Attached == DOMAIN supporting_documents' \ DOMAIN supporting_documents

\* C23: attaching documents is atomic: whatever the answer, either every
\* non-empty file of the request got its row or no row of the request
\* remains, also when saving one of several files fails.
C23_AttachAllOrNothing ==
    [][resp'.op = "attach" =>
          \/ Attached = {}
          \/ Cardinality(Attached) = NonEmpty(resp'.req.files)]_vars

\* the description the i-th file of a request is stored with
Described(req, i) ==
    IF i <= Len(req.descriptions) /\ req.descriptions[i] # ""
    THEN req.descriptions[i]
    ELSE "Supporting document " \o ToString(i)

\* C27: a successful attach is additive: every document that existed is
\* unchanged, each non-empty file gets exactly one new row of this case
\* with the i-th description or the default "Supporting document i", and
\* empty entries get none.
C27_AttachIsAdditive ==
    [][resp'.op = "attach" /\ resp'.code = 201 =>
          LET req == resp'.req
              filled == {i \in DOMAIN req.files : req.files[i] # ""}
          IN /\ \A k \in DOMAIN supporting_documents :
                    /\ k \in DOMAIN supporting_documents'
                    /\ supporting_documents'[k] = supporting_documents[k]
             /\ Cardinality(Attached) = Cardinality(filled)
             /\ \A i \in filled : \E k \in Attached :
                    supporting_documents'[k] =
                        [case |-> resp'.pk, file |-> req.files[i],
                         description |-> Described(req, i)]]_vars

\* an attach with an empty entry succeeded on a case that already had a
\* document, and the default description was used
C27_Witness ==
    /\ resp.op = "attach" /\ resp.code = 201
    /\ resp.req.files = <<"", "f2">>
    /\ \E k \in resp.result :
           supporting_documents[k].description = "Supporting document 2"
    /\ \E k \in DOMAIN supporting_documents :
           /\ k \notin resp.result
           /\ supporting_documents[k].case = resp.pk

----------------------------------------------------------------------------
(* DashboardView._calculate_time_ago *)

MaxElapsed == 172800    \* largest elapsed time in seconds given to _calculate_time_ago

\* timezone.now() - updated_at, for a whole number of elapsed seconds:
\* a timedelta keeps days and the seconds within the day apart
TimeDiff(elapsed) == [days |-> elapsed \div 86400, seconds |-> elapsed % 86400]

Plural(n) == IF n > 1 THEN "s" ELSE ""

_calculate_time_ago(time_diff) ==
    IF time_diff.days > 0
    THEN ToString(time_diff.days) \o " day" \o Plural(time_diff.days) \o " ago"
    ELSE IF time_diff.seconds > 3600
    THEN LET hours == time_diff.seconds \div 3600
         IN ToString(hours) \o " hour" \o Plural(hours) \o " ago"
    ELSE IF time_diff.seconds > 60
    THEN LET minutes == time_diff.seconds \div 60
         IN ToString(minutes) \o " minute" \o Plural(minutes) \o " ago"
    ELSE "Just now"

InitTimeAgo ==
    /\ cases = <<>>
    /\ cryptolossreport = <<>>
    /\ socialmediarecovery = <<>>
    /\ moneyrecoveryreport = <<>>
    /\ supporting_documents = <<>>
    /\ next_id = 1
    /\ next_doc_id = 1
    /\ resp = Record("init", NoUser, 0, NoReq, 0, {})
    /\ progress_in = [open |-> 0, in_progress |-> 0, pending |-> 0, resolved |-> 0, closed |-> 0]
    /\ progress_out = [steps |-> <<>>, currentStepIndex |-> 0]
    /\ activity_in = NoRows
    /\ activity_out = NoFeed
    /\ time_in \in 0..MaxElapsed
    /\ time_out = NoTime
    /\ inflight = <<>>
    /\ logging = TRUE

CalculateTimeAgo ==
    /\ time_out = NoTime
    /\ time_out' = _calculate_time_ago(TimeDiff(time_in))
    /\ UNCHANGED <<cases, cryptolossreport, socialmediarecovery, moneyrecoveryreport,
                   supporting_documents, next_id, next_doc_id, resp, progress_in,
                   progress_out, activity_in, activity_out, logging, time_in, inflight>>

NextTimeAgo == CalculateTimeAgo

SpecTimeAgo == InitTimeAgo /\ [][NextTimeAgo]_vars

----------------------------------------------------------------------------
(* Properties of _calculate_time_ago, under SpecTimeAgo *)

\* the largest unit that fits into the elapsed seconds, with its count
LargestUnit(elapsed) ==
    IF elapsed >= 86400 THEN [n |-> elapsed \div 86400, unit |-> "day"]
    ELSE IF elapsed >= 3600 THEN [n |-> elapsed \div 3600, unit |-> "hour"]
    ELSE IF elapsed >= 60 THEN [n |-> elapsed \div 60, unit |-> "minute"]
    ELSE [n |-> 0, unit |-> "now"]

\* C28: the text names the single largest unit that fits: days from one
\* day on, else hours from 3600 s on, else minutes from 60 s on, else
\* "Just now"; exactly 3600 s reads "1 hour ago", exactly 60 s "1 minute ago".
C28_LargestUnit ==
    time_out # NoTime =>
        LET u == LargestUnit(time_in)
        IN time_out = IF u.unit = "now" THEN "Just now"
                      ELSE ToString(u.n) \o " " \o u.unit \o Plural(u.n) \o " ago"

----------------------------------------------------------------------------
(* CaseDetailView.put step by step, with other requests in between *)

MaxRaceId == 2      \* largest pk asked for under SpecRace

Racers == {"c1", "a1"}
RaceUsers == Racers \cup {"c2"}
RaceRequests ==
    {Request([usdt_value |-> 2], <<>>, <<>>),
     Request([priority |-> "urgent"], <<>>, <<>>),
     Request([status |-> "pending", usdt_value |-> 3], <<>>, <<>>),
     Request([status |-> "bogus"], <<>>, <<>>)}

\* no put of this user is under way
Idle == [stage |-> "idle"]

\* which subclass row hasattr(case, ...) finds for the pk
Kind(pk) ==
    IF pk \in DOMAIN cryptolossreport THEN "crypto"
    ELSE IF pk \in DOMAIN socialmediarecovery THEN "social_media"
    ELSE IF pk \in DOMAIN moneyrecoveryreport THEN "money_recovery"
    ELSE "none"

Extension(kind) ==
    CASE kind = "crypto" -> cryptolossreport
      [] kind = "social_media" -> socialmediarecovery
      [] kind = "money_recovery" -> moneyrecoveryreport

KindTable(kind) ==
    CASE kind = "crypto" -> "crypto"
      [] kind = "social_media" -> "social"
      [] kind = "money_recovery" -> "money"

KindFields(kind) ==
    CASE kind = "crypto" -> crypto_fields
      [] kind = "social_media" -> social_fields
      [] kind = "money_recovery" -> money_fields

KindFullClean(kind, child) ==
    CASE kind = "crypto" -> CryptoFullClean(child)
      [] kind = "social_media" -> SocialFullClean(child)
      [] kind = "money_recovery" -> MoneyFullClean(child)

\* Model.save(): UPDATE ... WHERE pk; when no row matched, INSERT
Save(table, pk, row) ==
    IF pk \in DOMAIN table THEN Update(table, pk, row) ELSE Insert(table, pk, row)

\* get_object_or_404 and the permission check of put; the instance read
\* here is the one case.save() writes later
PutBegin(u, pk, r) ==
    /\ inflight[u].stage = "idle"
    /\ IF pk \notin DOMAIN cases
       THEN /\ resp' = Response("put", u, pk, r.data, 404, {})
            /\ UNCHANGED inflight
       ELSE IF ~_has_permission(u, cases[pk])
       THEN /\ resp' = Response("put", u, pk, r.data, 403, {})
            /\ UNCHANGED inflight
       ELSE /\ inflight' = [inflight EXCEPT ![u] =
                   [stage |-> "checked", pk |-> pk, data |-> r.data, files |-> r.files,
                    descriptions |-> r.descriptions, case |-> cases[pk],
                    kind |-> "none", child |-> <<>>, child_case |-> <<>>,
                    collided |-> FALSE, code |-> 0, order |-> 0]]
            /\ UNCHANGED resp
    /\ UNCHANGED <<store, next_id, next_doc_id, progress_in, progress_out,
                   activity_in, activity_out, logging, time_in, time_out>>

\* the first hasattr(case, ...) inside the atomic block reads the subclass
\* row, with its copy of the Case columns, and caches it on the instance
PutLoad(u) ==
    /\ inflight[u].stage = "checked"
    /\ LET pk == inflight[u].pk
           kind == Kind(pk)
       IN inflight' = [inflight EXCEPT ![u] =
              [@ EXCEPT !.stage = "loaded", !.kind = kind,
                        !.child = IF kind = "none" THEN <<>> ELSE Extension(kind)[pk],
                        !.child_case = IF kind = "none" THEN <<>> ELSE cases[pk]]]
    /\ UNCHANGED <<store, next_id, next_doc_id, resp, progress_in, progress_out,
                   activity_in, activity_out, logging, time_in, time_out>>

\* the writes of the atomic block of put, from the instances the request
\* holds: case.save(), <subclass>.save(), the documents. The UPDATE of
\* case.save() takes the row lock, so the writes of two requests do not
\* interleave. A request whose INSERT met the uncommitted INSERT of another
\* request for the same pk (collided) gets an IntegrityError instead.
PutWrites(r) ==
    LET pk == r.pk
        case == SetAttrs(r.case, r.data, base_fields)
        before == [ok |-> FALSE, cases |-> cases, crypto |-> cryptolossreport,
                   social |-> socialmediarecovery, money |-> moneyrecoveryreport]
        saved_case == [before EXCEPT !.cases = Save(cases, pk, case)]
    IN  IF r.collided \/ ~CaseFullClean(case) THEN Rollback(before, before)
        ELSE IF r.kind = "none"
        THEN IF DocsFail(r.files) THEN Rollback(before, saved_case)
             ELSE [saved_case EXCEPT !.ok = TRUE]
        ELSE LET child == SetAttrs(r.child, r.data, KindFields(r.kind))
                 child_case == SetAttrs(r.child_case, r.data, KindFields(r.kind))
                 saved_child ==
                    [saved_case EXCEPT
                       !.cases = Save(saved_case.cases, pk, ChildSave(r.kind, child_case)),
                       ![KindTable(r.kind)] = Save(Extension(r.kind), pk, child)]
             IN  IF ~(CaseFullClean(child_case) /\ KindFullClean(r.kind, child))
                 THEN Rollback(before, saved_case)
                 ELSE IF DocsFail(r.files) THEN Rollback(before, saved_child)
                 ELSE [saved_child EXCEPT !.ok = TRUE]

Commits == Cardinality({v \in Racers : inflight[v].stage = "done"})

\* the rest of put: the writes, the commit or the rollback, the answer.
\* When the commit inserted the Case row anew, a request that has loaded
\* its instances for the same pk may have run into that insert.
PutCommit(u) ==
    /\ inflight[u].stage = "loaded"
    /\ DocsFit(inflight[u].files)
    /\ LET r == inflight[u]
           tx == PutWrites(r)
           code == IF tx.ok THEN 200 ELSE 400
           inserted == tx.ok /\ r.pk \notin DOMAIN cases
           waiting == {v \in Racers \ {u} : /\ inserted
                                            /\ inflight[v].stage = "loaded"
                                            /\ inflight[v].pk = r.pk}
       IN /\ cases' = tx.cases
          /\ cryptolossreport' = tx.crypto
          /\ socialmediarecovery' = tx.social
          /\ moneyrecoveryreport' = tx.money
          /\ IF tx.ok
             THEN /\ supporting_documents' =
                         save_supporting_documents(supporting_documents, next_doc_id,
                                                   r.pk, r.files, r.descriptions)
                  /\ next_doc_id' = next_doc_id + NonEmpty(r.files)
             ELSE UNCHANGED <<supporting_documents, next_doc_id>>
          /\ resp' = Response("put", u, r.pk, r.data, code,
                              IF tx.ok THEN {r.pk} ELSE {})
          /\ \E hit \in SUBSET waiting :
                 inflight' = [v \in Racers |->
                     IF v = u THEN [r EXCEPT !.stage = "done", !.code = code,
                                             !.order = Commits + 1]
                     ELSE IF v \in hit THEN [inflight[v] EXCEPT !.collided = TRUE]
                     ELSE inflight[v]]
    /\ UNCHANGED <<next_id, progress_in, progress_out, activity_in, activity_out,
                   logging, time_in, time_out>>

\* one crypto case of c1, not assigned, and nobody in the middle of a put
InitRace ==
    /\ cases = (1 :> NewCase("c1", <<>>, "crypto"))
    /\ cryptolossreport = (1 :> [amount_lost |-> 1, usdt_value |-> 1, null_fields |-> {}])
    /\ socialmediarecovery = <<>>
    /\ moneyrecoveryreport = <<>>
    /\ supporting_documents = <<>>
    /\ next_id = 2
    /\ next_doc_id = 1
    /\ resp = Record("init", NoUser, 0, NoReq, 0, {})
    /\ progress_in = [open |-> 0, in_progress |-> 0, pending |-> 0, resolved |-> 0, closed |-> 0]
    /\ progress_out = [steps |-> <<>>, currentStepIndex |-> 0]
    /\ activity_in = NoRows
    /\ activity_out = NoFeed
    /\ time_in = 0
    /\ time_out = NoTime
    /\ inflight = [u \in Racers |-> Idle]
    /\ logging = TRUE

NextRace ==
    \/ \E u \in Racers, pk \in 1..MaxRaceId, r \in RaceRequests : PutBegin(u, pk, r)
    \/ \E u \in Racers : PutLoad(u)
    \/ \E u \in Racers : PutCommit(u)
    \/ \E u \in RaceUsers, pk \in 1..MaxRaceId : CaseDetailDelete(u, pk)

SpecRace == InitRace /\ [][NextRace]_vars

----------------------------------------------------------------------------
(* Properties of put under interleaving, under SpecRace *)

\* C29: a put that loaded the case and passed the permission check before
\* the case was deleted leaves the case deleted when it finishes: no Case
\* row and no extension row of that pk exists afterwards.
C29_DeletedStaysDeleted ==
    [][\A u \in Racers :
          /\ inflight[u].stage \in {"checked", "loaded"}
          /\ inflight'[u].stage = "done"
          /\ inflight[u].pk \notin DOMAIN cases
          => /\ inflight[u].pk \notin DOMAIN cases'
             /\ Extensions(inflight[u].pk)' = {}]_vars

\* the Case row a finished put wrote last
WroteCase(r) ==
    IF r.kind = "none" THEN SetAttrs(r.case, r.data, base_fields)
    ELSE [r.child_case EXCEPT !.type = r.kind]

\* the extension rows of pk that a finished put left: the row of its kind
\* with the patch applied, or none when it found no subclass row
WroteExtension(r, kind) ==
    IF r.kind = kind
    THEN [f \in DOMAIN r.child |->
             IF f \in DOMAIN r.data /\ f \in KindFields(kind) THEN r.data[f]
             ELSE r.child[f]]
    ELSE <<>>

StoredExtension(pk, kind) ==
    IF pk \in DOMAIN Extension(kind) THEN Extension(kind)[pk] ELSE <<>>

\* C30: once two puts on the same case have both committed, the Case row
\* and the extension row are both the ones the later of the two wrote,
\* never the Case row of one and the extension row of the other.
C30_LaterCommitWins ==
    \A u \in Racers, v \in Racers :
        /\ inflight[u].stage = "done" /\ inflight[u].code = 200
        /\ inflight[v].stage = "done" /\ inflight[v].code = 200
        /\ inflight[u].pk = inflight[v].pk
        /\ inflight[u].order > inflight[v].order
        /\ inflight[u].pk \in DOMAIN cases
        => /\ cases[inflight[u].pk] = WroteCase(inflight[u])
           /\ \A kind \in {"crypto", "social_media", "money_recovery"} :
                  StoredExtension(inflight[u].pk, kind) = WroteExtension(inflight[u], kind)

====
